---- MODULE Spec2Model ----
(***************************************************************************)
(* A model of the semantic analyzer of Controller/Driver.py: the walk of   *)
(* visitProgram over the program's declarations, visitVarDecl's use of the *)
(* scope manager, and the value every expression layer returns.            *)
(*                                                                         *)
(* Values are the Python values the visitor methods can return: the type   *)
(* marker objects NumType(), StringType(), BooleanType(), NilType() (and   *)
(* the Error marker of the type system), the host values None, True and    *)
(* False, and host strings made of n copies of "Unknown".                  *)
(***************************************************************************)
EXTENDS Integers, Sequences, FiniteSets

\* ---------------------------------------------------------------- bounds

\* Declarations in the program handed to visitProgram.
MaxDecls == 2
\* Operands in one layer node (ctx.logic_and(), ctx.equality(), ...).
MaxOperands == 3

\* ---------------------------------------------------------------- values

Val(k, n) == [kind |-> k, n |-> n]

NumType == Val("NumType", 0)
StringType == Val("StringType", 0)
BooleanType == Val("BooleanType", 0)
NilType == Val("NilType", 0)
\* The Error marker of the type system (Model/data_types, outside Driver.py).
ErrorType == Val("ErrorType", 0)
\* The Unknown variant of the type system; the driver never builds one.
UnknownType == Val("UnknownType", 0)

None == Val("None", 0)
PyTrue == Val("True", 0)
PyFalse == Val("False", 0)
\* The host string made of n copies of "Unknown" ("Unknown" + "Unknown" ...).
Str(n) == Val("str", n)
UnknownSentinel == Str(1)

TypeTags == {"NumType", "StringType", "BooleanType", "NilType", "ErrorType", "UnknownType"}

IsTypeObj(v) == v.kind \in TypeTags
IsStr(v) == v.kind = "str"
PyBool(b) == IF b THEN PyTrue ELSE PyFalse

\* bool(v): None, False and the empty string are falsy; an instance of a
\* class is truthy.
Truthy(v) ==
    CASE v.kind = "None" -> FALSE
      [] v.kind = "False" -> FALSE
      [] v.kind = "str" -> v.n > 0
      [] OTHER -> TRUE

\* The outcome of one operator application: a value, or a raised exception.
Ok(v) == [val |-> v, raised |-> FALSE]
Raise == [val |-> None, raised |-> TRUE]

\* ------------------------------------------------- operators on values

\* `a or b` and `a and b` of Python: the first operand decides by its truth
\* value which operand is the result.
PyOr(a, b) == IF Truthy(a) THEN a ELSE b
PyAnd(a, b) == IF Truthy(a) THEN b ELSE a

\* `a == b`: type markers are compared by tag, host values by value, and a
\* marker never equals a host value.  The result is a host boolean.
PyEq(a, b) == PyBool(a = b)
PyNe(a, b) == PyBool(a # b)

ArithOps == {"+", "-", "*", "/", "%"}
RelOps == {"<", ">", "<=", ">="}

\* An arithmetic or relational operator with a type marker as an operand is
\* decided by the type system: both operands Num gives Num (arithmetic) or
\* Boolean (relational), anything else, an Error operand included, gives
\* Error.
TypeOperator(op, l, r) ==
    IF l = NumType /\ r = NumType
    THEN (IF op \in ArithOps THEN NumType ELSE BooleanType)
    ELSE ErrorType

\* An arithmetic operator between two host values (None, str): only str + str
\* is defined (concatenation); every other combination raises TypeError.
\* Host booleans never reach the additive and multiplicative layers.
HostArith(op, l, r) ==
    IF op = "+" /\ IsStr(l) /\ IsStr(r) THEN Ok(Str(l.n + r.n)) ELSE Raise

\* A relational operator between two host values: two strings compare
\* lexicographically (here by length, one being a prefix of the other);
\* None, or a bool against None or str, raises TypeError.
HostCompare(op, l, r) ==
    IF IsStr(l) /\ IsStr(r)
    THEN Ok(PyBool(CASE op = "<" -> l.n < r.n
                     [] op = ">" -> l.n > r.n
                     [] op = "<=" -> l.n <= r.n
                     [] op = ">=" -> l.n >= r.n))
    ELSE Raise

\* result + x, result - x, result * x, result / x, result % x.  str % x is
\* string formatting and raises TypeError for a format without conversions.
ArithOperator(op, l, r) ==
    IF op = "%" /\ IsStr(l) THEN Raise
    ELSE IF IsTypeObj(l) \/ IsTypeObj(r) THEN Ok(TypeOperator(op, l, r))
    ELSE HostArith(op, l, r)

\* result < x, result > x, result <= x, result >= x.
RelOperator(op, l, r) ==
    IF IsTypeObj(l) \/ IsTypeObj(r) THEN Ok(TypeOperator(op, l, r))
    ELSE HostCompare(op, l, r)

\* ---------------------------------------------------------- parse trees

\* The layers of the expression grammar, innermost first.
Rank(layer) ==
    CASE layer = "unary" -> 0
      [] layer = "factor" -> 1
      [] layer = "term" -> 2
      [] layer = "comparison" -> 3
      [] layer = "equality" -> 4
      [] layer = "logic_and" -> 5
      [] layer = "logic_or" -> 6

Layers == {"factor", "term", "comparison", "equality", "logic_and", "logic_or"}

OpsOf(layer) ==
    CASE layer = "factor" -> {"*", "/", "%"}
      [] layer = "term" -> {"+", "-"}
      [] layer = "comparison" -> RelOps
      [] layer = "equality" -> {"==", "!="}
      [] layer = "logic_and" -> {"and"}
      [] layer = "logic_or" -> {"or"}

\* A unary context: its prefix operators (none: the unary is a call, which is
\* a primary), the token of the primary (NUMBER, STRING, IDENTIFIER, or none)
\* and the primary's text.
Unary(prefix, token, text) ==
    [layer |-> "unary", ops |-> prefix, args |-> <<>>, token |-> token, text |-> text]

\* A layer context with two or more operands; a layer context with a single
\* operand returns that operand's result and is left out of the tree.
Node(layer, ops, args) ==
    [layer |-> layer, ops |-> ops, args |-> args, token |-> "", text |-> ""]

Identifiers == {"x", "y"}

NumberLit == Unary(<<>>, "NUMBER", "1")
StringLit == Unary(<<>>, "STRING", "a")
Negated == Unary(<<"-">>, "NUMBER", "1")
Parenthesized == Unary(<<>>, "", "(1)")

Primaries ==
    {NumberLit, StringLit, Parenthesized,
     Unary(<<>>, "", "true"), Unary(<<>>, "", "false"), Unary(<<>>, "", "nil"),
     Unary(<<>>, "", "this")}
    \cup {Unary(<<>>, "IDENTIFIER", id) : id \in Identifiers}

Unaries == Primaries \cup {Negated, Unary(<<"!">>, "", "true")}

\* The operands of the two-operand nodes and of the longer ones.
BinaryOperands == {NumberLit, StringLit, Unary(<<>>, "", "true"), Negated, Parenthesized}
NaryOperands == {NumberLit, Negated}

BinaryNodes ==
    UNION {{Node(L, <<o>>, <<a, b>>) : o \in OpsOf(L), a \in BinaryOperands, b \in BinaryOperands}
           : L \in Layers}

\* Three and more operands, the same operator between them.
NaryNodes ==
    UNION {UNION {{Node(L, [i \in 1..(n - 1) |-> o], args) : o \in OpsOf(L), args \in [1..n -> NaryOperands]}
                  : L \in Layers}
           : n \in 3..MaxOperands}

\* An operand that is itself a node of a lower layer.
InnerNodes ==
    {Node("term", <<"+">>, <<NumberLit, StringLit>>), Node("term", <<"+">>, <<NumberLit, NumberLit>>),
     Node("factor", <<"*">>, <<NumberLit, StringLit>>), Node("comparison", <<"<">>, <<NumberLit, NumberLit>>),
     Node("equality", <<"==">>, <<NumberLit, NumberLit>>), Node("equality", <<"!=">>, <<NumberLit, NumberLit>>)}

NestedNodes ==
    UNION {{Node(L, <<o>>, <<a, b>>) : o \in OpsOf(L),
                a \in {n \in InnerNodes : Rank(n.layer) < Rank(L)}, b \in NaryOperands}
           : L \in Layers}
    \cup
    UNION {{Node(L, <<o>>, <<b, a>>) : o \in OpsOf(L),
                a \in {n \in InnerNodes : Rank(n.layer) < Rank(L)}, b \in NaryOperands}
           : L \in Layers}

Expressions == Unaries \cup BinaryNodes \cup NaryNodes \cup NestedNodes

\* ------------------------------------------------------ expression layers

\* visitPrimary with the STRING branch returning the marker of the NUMBER
\* branch.
visitPrimary_stringAsNum(ctx) ==
    IF ctx.token = "NUMBER" THEN NumType
    ELSE IF ctx.token = "STRING" THEN NumType
    ELSE IF ctx.text = "true" \/ ctx.text = "false" THEN BooleanType
    ELSE IF ctx.text = "nil" THEN NilType
    ELSE UnknownSentinel

\* visitPrimary: the type marker of a literal, the string "Unknown" for
\* every other primary (an identifier, a parenthesized expression, this...).
visitPrimary(ctx) ==
    IF ctx.token = "NUMBER" THEN NumType
    ELSE IF ctx.token = "STRING" THEN StringType
    ELSE IF ctx.text = "true" \/ ctx.text = "false" THEN BooleanType
    ELSE IF ctx.text = "nil" THEN NilType
    ELSE UnknownSentinel

\* visitCall: the call's primary.
visitCall(ctx) == visitPrimary(ctx)

\* visitUnary: the call's result when the unary is a call; with a prefix
\* operator ctx.call() is None and the method falls off its end.
visitUnary(ctx) == IF ctx.ops = <<>> THEN visitCall(ctx) ELSE None

\* One iteration of a layer's loop: the new result, whether the operator
\* raised, and whether the loop breaks after it.
Iter(r, brk) == [val |-> r.val, raised |-> r.raised, brk |-> (~r.raised) /\ brk]

visitFactor(operator, result, unary_result) ==
    Iter(ArithOperator(operator, result, unary_result), FALSE)

visitTerm(operator, result, factor_result) ==
    Iter(ArithOperator(operator, result, factor_result), FALSE)

visitComparison(operator, result, term_result) ==
    LET r == RelOperator(operator, result, term_result)
    IN  Iter(r, ~Truthy(r.val))

visitEquality(operator, result, comparison_result) ==
    LET r == IF operator = "==" THEN PyEq(result, comparison_result)
                                ELSE PyNe(result, comparison_result)
    IN  Iter(Ok(r), ~Truthy(r))

visitLogic_and(operator, result, equality_result) ==
    LET r == PyAnd(result, equality_result)
    IN  Iter(Ok(r), ~Truthy(r))

visitLogic_or(operator, result, logic_and_result) ==
    LET r == PyOr(result, logic_and_result)
    IN  Iter(Ok(r), Truthy(r))

LoopBody(layer, operator, result, x) ==
    CASE layer = "factor" -> visitFactor(operator, result, x)
      [] layer = "term" -> visitTerm(operator, result, x)
      [] layer = "comparison" -> visitComparison(operator, result, x)
      [] layer = "equality" -> visitEquality(operator, result, x)
      [] layer = "logic_and" -> visitLogic_and(operator, result, x)
      [] layer = "logic_or" -> visitLogic_or(operator, result, x)

\* The outcome of visiting a context: the value returned (unless an operator
\* raised) and the number of unary contexts visited on the way.
Outcome(v, raised, visited) == [val |-> v, raised |-> raised, visited |-> visited]

RECURSIVE visit(_)
RECURSIVE loop(_, _, _)

\* self.visit(ctx): the first operand, then the layer's loop over the rest.
visit(ctx) ==
    IF ctx.layer = "unary" THEN Outcome(visitUnary(ctx), FALSE, 1)
    ELSE loop(ctx, 2, visit(ctx.args[1]))

\* for i in range(1, len(operands)): visit operand i, apply the operator,
\* break when the layer says so.  (Operand i of the code is args[i + 1].)
loop(ctx, i, acc) ==
    IF acc.raised \/ i > Len(ctx.args) THEN acc
    ELSE LET x == visit(ctx.args[i])
             n == acc.visited + x.visited
         IN  IF x.raised THEN Outcome(None, TRUE, n)
             ELSE LET it == LoopBody(ctx.layer, ctx.ops[i - 1], acc.val, x.val)
                  IN  IF it.raised THEN Outcome(None, TRUE, n)
                      ELSE IF it.brk THEN Outcome(it.val, FALSE, n)
                      ELSE loop(ctx, i + 1, Outcome(it.val, FALSE, n))

\* The unary contexts below a context.
RECURSIVE Operands(_)
Operands(ctx) ==
    IF ctx.layer = "unary" THEN 1
    ELSE LET RECURSIVE sum(_)
             sum(i) == IF i = 0 THEN 0 ELSE Operands(ctx.args[i]) + sum(i - 1)
         IN  sum(Len(ctx.args))

\* ------------------------------------------------------------- the state

VARIABLES
    pc,           \* where the walk is: "program", "expression", "done", "raised"
    remaining,    \* declarations of the program not yet visited
    symbols,      \* the symbols of the scope manager's current scope
    identifier,   \* the identifier of the declaration visited last ("": none,
                  \* or no variable declaration)
    ctx,          \* << the initializer being visited >>, or << >>
    visited,      \* unary contexts of the initializer visited so far
    errors,       \* the exceptions raised, in order
    type_writes   \* per identifier, the assignments to its variable's data_type

vars == <<pc, remaining, symbols, identifier, ctx, visited, errors, type_writes>>

\* The scope manager's current scope: the driver never enters another one.
current_scope == 0

\* Symbol(name=identifier, obj_type=Variable(data_type), scope_level=...).
Symbol(name, data_type, scope_level) ==
    [name |-> name, data_type |-> data_type, scope_level |-> scope_level]

\* scope_manager.get_symbol(identifier, Variable): the symbols of that name
\* in the current scope (none: the call returns None).
get_symbol(name) ==
    {s \in symbols : s.name = name /\ s.scope_level = current_scope}

\* scope_manager.add_symbol(symbol).
add_symbol(symbol) == symbols \cup {symbol}

Init ==
    /\ pc = "program"
    /\ remaining \in 0..MaxDecls
    /\ symbols = {}
    /\ identifier = ""
    /\ ctx = <<>>
    /\ visited = 0
    /\ errors = <<>>
    /\ type_writes = [id \in Identifiers |-> 0]

\* visitProgram: visitChildren has visited every declaration.
visitProgram ==
    /\ pc = "program"
    /\ remaining = 0
    /\ pc' = "done"
    /\ UNCHANGED <<remaining, symbols, identifier, ctx, visited, errors, type_writes>>

\* visitDeclaration of a declaration that is no variable declaration.
visitDeclaration ==
    /\ pc = "program"
    /\ remaining > 0
    /\ remaining' = remaining - 1
    /\ identifier' = ""
    /\ UNCHANGED <<pc, symbols, ctx, visited, errors, type_writes>>

\* visitVarDecl without its check of the current scope: the second
\* declaration replaces the symbol and raises nothing.
visitVarDecl_overwrite(id) ==
    /\ pc = "program"
    /\ remaining > 0
    /\ get_symbol(id) # {}
    /\ remaining' = remaining - 1
    /\ identifier' = id
    /\ symbols' = (symbols \ get_symbol(id)) \cup {Symbol(id, None, current_scope)}
    /\ UNCHANGED <<pc, ctx, visited, errors, type_writes>>

\* visitVarDecl, the name already in the current scope: raise Exception.
visitVarDecl_exists(id) ==
    /\ pc = "program"
    /\ remaining > 0
    /\ get_symbol(id) # {}
    /\ remaining' = remaining - 1
    /\ identifier' = id
    /\ pc' = "raised"
    /\ errors' = Append(errors, "Exception: already exists")
    /\ UNCHANGED <<symbols, ctx, visited, type_writes>>

\* visitVarDecl without an initializer: the symbol is added, its data_type
\* stays None.
visitVarDecl_noInit(id) ==
    /\ pc = "program"
    /\ remaining > 0
    /\ get_symbol(id) = {}
    /\ remaining' = remaining - 1
    /\ symbols' = add_symbol(Symbol(id, None, current_scope))
    /\ identifier' = id
    /\ UNCHANGED <<pc, ctx, visited, errors, type_writes>>

\* visitVarDecl visiting the initializer before the symbol is added.
visitVarDecl_visitFirst(id, expression) ==
    /\ pc = "program"
    /\ remaining > 0
    /\ get_symbol(id) = {}
    /\ remaining' = remaining - 1
    /\ identifier' = id
    /\ ctx' = <<expression>>
    /\ visited' = 0
    /\ pc' = "expression"
    /\ UNCHANGED <<symbols, errors, type_writes>>

\* visitVarDecl with an initializer, up to the visit of the expression: the
\* symbol is added with data_type None.
visitVarDecl_init(id, expression) ==
    /\ pc = "program"
    /\ remaining > 0
    /\ get_symbol(id) = {}
    /\ remaining' = remaining - 1
    /\ symbols' = add_symbol(Symbol(id, None, current_scope))
    /\ identifier' = id
    /\ ctx' = <<expression>>
    /\ visited' = 0
    /\ pc' = "expression"
    /\ UNCHANGED <<errors, type_writes>>

\* self.visit(ctx.expression()) reaches its next unary context.
visitOperand ==
    /\ pc = "expression"
    /\ visited < visit(ctx[1]).visited
    /\ visited' = visited + 1
    /\ UNCHANGED <<pc, remaining, symbols, identifier, ctx, errors, type_writes>>

\* The assignment written to every variable of the scope instead of the one
\* just declared.
visitVarDecl_assignAll ==
    /\ pc = "expression"
    /\ LET out == visit(ctx[1])
       IN  /\ visited = out.visited
           /\ ~out.raised
           /\ symbols' = {Symbol(s.name, out.val, s.scope_level) : s \in symbols}
           /\ type_writes' = [type_writes EXCEPT ![identifier] = @ + 1]
    /\ pc' = "program"
    /\ ctx' = <<>>
    /\ visited' = 0
    /\ UNCHANGED <<remaining, identifier, errors>>

\* variable.data_type = expression_type, and visitVarDecl returns.
visitVarDecl_assign ==
    /\ pc = "expression"
    /\ LET out == visit(ctx[1])
           id == identifier
       IN  /\ visited = out.visited
           /\ ~out.raised
           /\ symbols' = {IF s.name = id /\ s.scope_level = current_scope
                          THEN Symbol(s.name, out.val, s.scope_level) ELSE s : s \in symbols}
           /\ type_writes' = [type_writes EXCEPT ![id] = @ + 1]
    /\ pc' = "program"
    /\ ctx' = <<>>
    /\ visited' = 0
    /\ UNCHANGED <<remaining, identifier, errors>>

\* An operator of the initializer raised TypeError: nothing catches it, and
\* it leaves visitVarDecl, visitDeclaration and visitProgram.
visitVarDecl_raise ==
    /\ pc = "expression"
    /\ LET out == visit(ctx[1])
       IN  /\ visited = out.visited
           /\ out.raised
    /\ pc' = "raised"
    /\ errors' = Append(errors, "TypeError")
    /\ UNCHANGED <<remaining, symbols, identifier, ctx, visited, type_writes>>

Next ==
    \/ visitProgram
    \/ visitDeclaration
    \/ \E id \in Identifiers : visitVarDecl_exists(id)
    \/ \E id \in Identifiers : visitVarDecl_noInit(id)
    \/ \E id \in Identifiers, expression \in Expressions : visitVarDecl_init(id, expression)
    \/ visitOperand
    \/ visitVarDecl_assign
    \/ visitVarDecl_raise

Spec == Init /\ [][Next]_vars

\* ------------------------------------------------------------ properties

\* The visit of the initializer has reached its last unary context: the
\* value it returns (or the exception it raises) is decided.
AtReturn == pc = "expression" /\ visited = visit(ctx[1]).visited

Redeclaration == "Exception: already exists"

\* The symbols of a name in the scope after the step.
Bound(syms, name) == {s \in syms : s.name = name /\ s.scope_level = current_scope}

\* C1: a step that visits the declaration of a name already bound in the
\* current scope raises exactly one redeclaration error and leaves the
\* scope's symbols, the original symbol and its type included, unchanged.
C1_RedeclarationKeepsScope ==
    [][(/\ pc = "program"
        /\ remaining' < remaining
        /\ identifier' # ""
        /\ Bound(symbols, identifier') # {})
       => (/\ errors' = Append(errors, Redeclaration)
           /\ pc' = "raised"
           /\ symbols' = symbols)]_vars

C1_Witness ==
    /\ pc = "raised"
    /\ errors = <<Redeclaration>>
    /\ Bound(symbols, identifier) = {Symbol(identifier, StringType, current_scope)}

IsLiteral(c) ==
    /\ c.layer = "unary"
    /\ c.ops = <<>>
    /\ \/ c.token \in {"NUMBER", "STRING"}
       \/ c.token = "" /\ c.text \in {"true", "false", "nil"}

LiteralType(c) ==
    CASE c.token = "NUMBER" -> NumType
      [] c.token = "STRING" -> StringType
      [] c.text \in {"true", "false"} -> BooleanType
      [] c.text = "nil" -> NilType

\* C2: when the declaration `var x = <literal>` of a name not yet bound has
\* been processed, the symbol of x in the current scope has the literal's
\* type: Num, String, Boolean or Nil.
C2_LiteralType ==
    [][(pc = "expression" /\ pc' = "program" /\ IsLiteral(ctx[1]))
       => Bound(symbols', identifier)
            = {Symbol(identifier, LiteralType(ctx[1]), current_scope)}]_vars

C2_Witness ==
    /\ pc = "program"
    /\ Symbol("x", NilType, current_scope) \in symbols
    /\ Symbol("y", BooleanType, current_scope) \in symbols

\* C8: a symbol's type is written at most once; it is None until then; a
\* declaration without initializer adds the symbol with type None and raises
\* nothing; and a symbol whose type has been written never changes again.
C8_TypeWrittenOnce ==
    /\ [](\A id \in Identifiers :
            /\ type_writes[id] <= 1
            /\ (type_writes[id] = 0 => \A s \in Bound(symbols, id) : s.data_type = None))
    /\ [][/\ \A s \in symbols : type_writes[s.name] >= 1 => s \in symbols'
          /\ (pc = "program" /\ pc' = "program" /\ symbols' # symbols)
                => (/\ errors' = errors
                    /\ type_writes' = type_writes
                    /\ symbols' = symbols \cup {Symbol(identifier', None, current_scope)})]_vars

C8_Witness ==
    /\ pc = "done"
    /\ type_writes = [id \in Identifiers |-> IF id = "x" THEN 1 ELSE 0]
    /\ symbols = {Symbol("x", NumType, current_scope), Symbol("y", None, current_scope)}
    /\ errors = <<>>

\* C10: the symbol is in the current scope, with type None, at every step of
\* the type-check of its initializer; the declaration adds exactly one symbol
\* of that name, when it starts, and none while or after the initializer is
\* type-checked.
C10_InsertedBeforeInitializer ==
    /\ [](pc = "expression"
            => Bound(symbols, identifier) = {Symbol(identifier, None, current_scope)})
    /\ [][/\ (pc = "program" /\ pc' = "expression")
                => /\ Bound(symbols, identifier') = {}
                   /\ Cardinality(symbols') = Cardinality(symbols) + 1
          /\ pc = "expression"
                => /\ Cardinality(symbols') = Cardinality(symbols)
                   /\ (pc' = "program" => Cardinality(Bound(symbols', identifier)) = 1)]_vars

C10_Witness ==
    /\ pc = "expression"
    /\ visited = 2
    /\ visited < visit(ctx[1]).visited
    /\ symbols = {Symbol("x", NumType, current_scope), Symbol("y", None, current_scope)}
    /\ identifier = "y"

\* ------------------------------------- the type-system table of the design

\* resultType(op, leftType, rightType): Error is absorbing; the connectives
\* take Boolean operands (Unknown propagates); equality takes two operands of
\* one tag, or an Unknown one; the relational and arithmetic operators take
\* Num operands.
resultType(op, l, r) ==
    IF l = ErrorType \/ r = ErrorType THEN ErrorType
    ELSE IF op \in {"and", "or"}
         THEN (IF l = BooleanType /\ r = BooleanType THEN BooleanType
               ELSE IF {l, r} \subseteq {BooleanType, UnknownType} THEN UnknownType
               ELSE ErrorType)
    ELSE IF op \in {"==", "!="}
         THEN (IF l = r \/ UnknownType \in {l, r} THEN BooleanType ELSE ErrorType)
    ELSE IF l = NumType /\ r = NumType
         THEN (IF op \in RelOps THEN BooleanType ELSE NumType)
    ELSE ErrorType

\* The left fold of resultType over the first i operands of a layer whose
\* operands are literals.
RECURSIVE LeftFold(_, _)
LeftFold(c, i) ==
    IF i = 1 THEN LiteralType(c.args[1])
    ELSE resultType(c.ops[i - 1], LeftFold(c, i - 1), LiteralType(c.args[i]))

OfLiterals(c) ==
    /\ c.layer # "unary"
    /\ \A i \in 1..Len(c.args) : IsLiteral(c.args[i])

\* The diagnostics of a kind among the errors raised.
Diagnostics(errs, kind) == Cardinality({i \in 1..Len(errs) : errs[i] = kind})
TypeMismatch == "TypeError"

\* C3: for a binary operator of the equality, relational, additive and
\* multiplicative layers applied to two literals, the declared symbol gets
\* the type of the type-system table, and a result of Error comes with
\* exactly one more type-mismatch diagnostic.
C3_OperatorTable ==
    [][(/\ pc = "expression"
        /\ pc' # "expression"
        /\ OfLiterals(ctx[1])
        /\ Len(ctx[1].args) = 2
        /\ ctx[1].layer \in {"equality", "comparison", "term", "factor"})
       => LET t == LeftFold(ctx[1], 2)
          IN  /\ pc' = "program"
              /\ Bound(symbols', identifier) = {Symbol(identifier, t, current_scope)}
              /\ (t = ErrorType
                    => Diagnostics(errors', TypeMismatch)
                         = Diagnostics(errors, TypeMismatch) + 1)]_vars

\* C4: a logical-or, logical-and, equality or relational layer visits every
\* one of its operands and returns the left fold of resultType over their
\* types.
C4_LeftFoldOverAllOperands ==
    (AtReturn /\ ctx[1].layer \in {"logic_or", "logic_and", "equality", "comparison"})
        => LET out == visit(ctx[1])
           IN  /\ ~out.raised => out.visited = Operands(ctx[1])
               /\ OfLiterals(ctx[1])
                    => (~out.raised /\ out.val = LeftFold(ctx[1], Len(ctx[1].args)))

\* C5: the walk is never aborted by an error of an expression: an exception
\* that ends it is the redeclaration error, so that the declarations after
\* an ill-typed initializer are still visited.
C5_ExpressionErrorDoesNotAbort ==
    pc = "raised" => errors[Len(errors)] = Redeclaration

\* The Type of a value: None and the string sentinel stand for Unknown.
AsType(v) == IF IsTypeObj(v) THEN v ELSE UnknownType

\* C6: an identifier used as a primary has the type of the symbol its name
\* resolves to, and raises an undefined-reference error when no scope binds
\* the name.
C6_IdentifierResolved ==
    (AtReturn /\ ctx[1].layer = "unary" /\ ctx[1].ops = <<>> /\ ctx[1].token = "IDENTIFIER")
        => LET out == visit(ctx[1])
           IN  IF Bound(symbols, ctx[1].text) # {}
               THEN /\ ~out.raised
                    /\ \A s \in Bound(symbols, ctx[1].text) :
                            AsType(out.val) = AsType(s.data_type)
               ELSE out.raised

\* C7: an operator with an operand of type Error yields Error, and the
\* declaration whose initializer holds one ill-typed operator ends with
\* exactly one more type-mismatch diagnostic.
C7_ErrorAbsorbing ==
    [][(/\ pc = "expression"
        /\ pc' # "expression"
        /\ ctx[1].layer # "unary"
        /\ \E i \in 1..Len(ctx[1].args) :
              LET a == visit(ctx[1].args[i]) IN ~a.raised /\ a.val = ErrorType)
       => /\ pc' = "program"
          /\ Bound(symbols', identifier) = {Symbol(identifier, ErrorType, current_scope)}
          /\ Diagnostics(errors', TypeMismatch) = Diagnostics(errors, TypeMismatch) + 1]_vars

\* C9: every layer returns one of the six Type variants: the value of the
\* expression and of each of its operands is a type marker, never None, a
\* host boolean or a string.
C9_EveryLayerReturnsAType ==
    AtReturn
        => LET out == visit(ctx[1])
           IN  /\ ~out.raised => IsTypeObj(out.val)
               /\ \A i \in 1..Len(ctx[1].args) :
                    LET a == visit(ctx[1].args[i]) IN ~a.raised => IsTypeObj(a.val)

====
